---- MODULE Spec2Model ----
(***************************************************************************)
(* State-machine model of VisPyVisuals.py: ShapeCollectionVisual (a store  *)
(* of shapes with cached per-shape buffers, merged per layer and handed to *)
(* the MeshVisual / LineVisual of each layer) and one ShapeGroup on top of *)
(* it.                                                                     *)
(***************************************************************************)
EXTENDS Integers, Sequences, FiniteSets, TLC

VARIABLES
    layers,     \* len(self._meshes) = len(self._lines), the `layers` argument
    data,       \* self.data: key -> shape record
    order,      \* the order in which self.data.values() yields the keys
    last_key,   \* self.last_key
    meshes,     \* self._meshes[i]: what the MeshVisual of layer i holds
    lines,      \* self._lines[i]: what the LineVisual of layer i holds
    calls,      \* the calls the last operation made on the visuals, in order
    indexes,    \* ShapeGroup._indexes
    gvisible,   \* ShapeGroup._visible
    result,     \* the last call: its name, its update argument, its exception, its return value
    returned,   \* what each call of add returned, in order (NoValue: it raised)
    now_meshes, \* the mesh visuals of a second collection that gets the same calls
    now_lines,  \* with update=True, and its line visuals
    given,      \* the list a static segment method is called with
    segments    \* what the static segment method returned

vars == <<layers, data, order, last_key, meshes, lines, calls, indexes, gvisible, result,
          returned, now_meshes, now_lines, given, segments>>

----------------------------------------------------------------------------
(* Bounds of the model *)

\* number of add calls in one run (keys 0 .. MaxAdds-1)
MaxAdds == 2

\* the `layers` argument of the constructor
MaxLayers == 2

\* length of the lists the static segment methods are called with
MaxLen == 3

----------------------------------------------------------------------------
(* Values *)

None == "None"

\* what the methods return when they fall off their end
NoValue == 0 - 1

\* colors: one RGBA-convertible stroke color, one fill color, one value that
\* Color() rejects
Red == "red"
Blue == "blue"
BadColor == "not-a-color"

\* vispy.color.Color(c).rgba; Color(None) is the transparent black
ColorOK(c) == c \in {None, Red, Blue}

Color(c) ==
    CASE c = Red -> <<1, 0, 0, 1>>
      [] c = Blue -> <<0, 0, 1, 1>>
      [] OTHER -> <<0, 0, 0, 0>>

\* Python list indexing lst[i] on a list of n items: negative i counts from
\* the end, anything else outside raises IndexError
ListIndexOK(n, i) == i >= 0 - n /\ i < n

ListIndex(n, i) == IF i < 0 THEN i + n ELSE i

\* [x] * n
Repeat(x, n) == [i \in 1..n |-> x]

RECURSIVE Flatten(_)
Flatten(ss) == IF ss = <<>> THEN <<>> ELSE Head(ss) \o Flatten(Tail(ss))

\* A new key in a dict: values() yields it at a place the language leaves
\* open; the entries that were there keep their order (no resize of the
\* table below 6 entries)
Inserted(ord, key) ==
    {SubSeq(ord, 1, i) \o <<key>> \o SubSeq(ord, i + 1, Len(ord)) : i \in 0..Len(ord)}

----------------------------------------------------------------------------
(* Geometries (shapely): a type, the coordinates of the line, of the ring  *)
(* or of the polygon's exterior, and the coordinates of the interiors      *)

Geo(t, c, ints) == [type |-> t, coords |-> c, interiors |-> ints]

NoGeo == Geo(None, <<>>, <<>>)

EmptyLine == Geo("LineString", <<>>, <<>>)

EmptyPoly == Geo("Polygon", <<>>, <<>>)

\* a line whose middle point lies on the segment of its ends
LineA == Geo("LineString", << <<0, 0>>, <<1, 1>>, <<2, 2>> >>, <<>>)

LineB == Geo("LineString", << <<0, 0>>, <<2, 0>>, <<2, 2>> >>, <<>>)

RingA == Geo("LinearRing", << <<0, 0>>, <<2, 0>>, <<0, 2>>, <<0, 0>> >>, <<>>)

\* a triangle
PolyA == Geo("Polygon", << <<0, 0>>, <<2, 0>>, <<0, 2>>, <<0, 0>> >>, <<>>)

\* a square
PolyB == Geo("Polygon", << <<0, 0>>, <<2, 0>>, <<2, 2>>, <<0, 2>>, <<0, 0>> >>, <<>>)

\* a square with a square hole
PolyHole ==
    Geo("Polygon", << <<0, 0>>, <<3, 0>>, <<3, 3>>, <<0, 3>>, <<0, 0>> >>,
        << << <<1, 1>>, <<1, 2>>, <<2, 2>>, <<2, 1>>, <<1, 1>> >> >>)

\* a geometry that is no line, ring or polygon
PointA == Geo("Point", << <<1, 1>> >>, <<>>)

is_empty(geo) == geo.coords = <<>>

\* How far p is from the segment a-b, as a number that is 0 exactly when p
\* is within the tolerance (integer coordinates: on the segment) and that
\* orders the points of one line by their distance
Deviation(p, a, b) ==
    IF a = b
    THEN (p[1] - a[1]) * (p[1] - a[1]) + (p[2] - a[2]) * (p[2] - a[2])
    ELSE LET cross == (b[1] - a[1]) * (p[2] - a[2]) - (b[2] - a[2]) * (p[1] - a[1])
         IN  cross * cross

\* simplify(0.01) on one coordinate list (Douglas-Peucker): keep the ends,
\* keep the farthest point when it is off the segment and recurse
RECURSIVE SimplifyCoords(_)
SimplifyCoords(c) ==
    IF Len(c) <= 2
    THEN c
    ELSE LET a == c[1]
             b == c[Len(c)]
             far == CHOOSE i \in 2..(Len(c) - 1) :
                        \A j \in 2..(Len(c) - 1) :
                            Deviation(c[i], a, b) >= Deviation(c[j], a, b)
         IN  IF Deviation(c[far], a, b) = 0
             THEN <<a, b>>
             ELSE SimplifyCoords(SubSeq(c, 1, far))
                      \o Tail(SimplifyCoords(SubSeq(c, far, Len(c))))

simplify(geo) ==
    Geo(geo.type, SimplifyCoords(geo.coords),
        [i \in 1..Len(geo.interiors) |-> SimplifyCoords(geo.interiors[i])])

\* (a bug: the doubled list keeps its first and its last item)
_linestring_to_segments_uncut(arr) ==
    [i \in 1..(2 * Len(arr)) |-> arr[((i - 1) \div 2) + 1]]

\* [arr[i / 2] for i in range(0, len(arr) * 2)][1:-1]
_linestring_to_segments(arr) ==
    LET twice == [i \in 1..(2 * Len(arr)) |-> arr[((i - 1) \div 2) + 1]]
    IN  SubSeq(twice, 2, 2 * Len(arr) - 1)

\* closes the ring when its ends differ, then as a line
_linearring_to_segments(arr) ==
    _linestring_to_segments(IF arr[1] # arr[Len(arr)] THEN Append(arr, arr[1]) ELSE arr)

\* gpc: the contour of a ring, without the repeated closing point
Contour(c) == IF Len(c) > 1 /\ c[1] = c[Len(c)] THEN SubSeq(c, 1, Len(c) - 1) ELSE c

\* gpc: one triangle strip over a convex contour v1 .. vn:
\* v1, v2, vn, v3, v(n-1), ...
Strip(v) ==
    [i \in 1..Len(v) |->
        IF i = 1 THEN v[1]
        ELSE IF i % 2 = 0 THEN v[(i \div 2) + 1]
        ELSE v[Len(v) - ((i - 3) \div 2)]]

\* the least and the greatest coordinate of the points c on one axis
Lo(c, axis) ==
    CHOOSE v \in {c[i][axis] : i \in 1..Len(c)} : \A i \in 1..Len(c) : v <= c[i][axis]

Hi(c, axis) ==
    CHOOSE v \in {c[i][axis] : i \in 1..Len(c)} : \A i \in 1..Len(c) : v >= c[i][axis]

\* gpc: the strip of two triangles over a rectangle
Band(x0, y0, x1, y1) == << <<x0, y0>>, <<x1, y0>>, <<x0, y1>>, <<x1, y1>> >>

\* gpc: a rectangle minus a rectangle inside it comes as several strips;
\* here the bands below, left of, right of and above the hole
Bands(outer, hole) ==
    << Band(Lo(outer, 1), Lo(outer, 2), Hi(outer, 1), Lo(hole, 2)),
       Band(Lo(outer, 1), Lo(hole, 2), Lo(hole, 1), Hi(hole, 2)),
       Band(Hi(hole, 1), Lo(hole, 2), Hi(outer, 1), Hi(hole, 2)),
       Band(Lo(outer, 1), Hi(hole, 2), Hi(outer, 1), Hi(outer, 2)) >>

\* gpc.Polygon(exterior) minus the interiors, then p.triStrip(): one strip
\* for a convex polygon without holes, several for the square with a hole
triStrip(simple) ==
    IF Len(Contour(simple.coords)) < 3
    THEN <<>>
    ELSE IF simple.interiors = <<>>
    THEN <<Strip(Contour(simple.coords))>>
    ELSE Bands(simple.coords, simple.interiors[1])

\* (a bug: the faces are numbered after the strip was appended to tri_pts)
StripTrisAfterAppend(strip, base) ==
    [y \in 1..(Len(strip) - 2) |->
        <<(y - 1) + base + Len(strip), (y - 1) + base + Len(strip) + 1,
          (y - 1) + base + Len(strip) + 2>>]

\* [[x + y + len(tri_pts) for x in range(0, 3)] for y in range(0, len(strip) - 2)]
StripTris(strip, base) ==
    [y \in 1..(Len(strip) - 2) |-> <<(y - 1) + base, (y - 1) + base + 1, (y - 1) + base + 2>>]

\* for strip in p.triStrip(): tri_tris += ti; tri_pts += strip
RECURSIVE Triangulate(_, _)
Triangulate(strips, acc) ==
    IF strips = <<>>
    THEN acc
    ELSE Triangulate(Tail(strips),
                     [tri_tris |-> acc.tri_tris \o StripTris(Head(strips), Len(acc.tri_pts)),
                      tri_pts |-> acc.tri_pts \o Head(strips)])

\* the segments of the exterior, then those of each interior
RECURSIVE InteriorSegments(_)
InteriorSegments(ints) ==
    IF ints = <<>>
    THEN <<>>
    ELSE _linearring_to_segments(Head(ints)) \o InteriorSegments(Tail(ints))

\* a shape record as add builds it, before its buffers are stored
Shape(shape, color, face_color, visible, layer) ==
    [geometry |-> shape, color |-> color, face_color |-> face_color,
     visible |-> visible, layer |-> layer,
     has_buffers |-> FALSE,
     line_pts |-> <<>>, line_colors |-> <<>>,
     mesh_vertices |-> <<>>, mesh_tris |-> <<>>, mesh_colors |-> <<>>]

\* (a bug: a shape without geometry, or with an empty one, raises and gets
\* no buffers)
update_shape_buffers_needs_geometry(rec) ==
    LET geo == rec.geometry
        translated == geo.type # None /\ ~is_empty(geo)
        simple == simplify(geo)
        tri == IF translated /\ geo.type = "Polygon" /\ rec.face_color # None
               THEN Triangulate(triStrip(simple), [tri_tris |-> <<>>, tri_pts |-> <<>>])
               ELSE [tri_tris |-> <<>>, tri_pts |-> <<>>]
        pts == IF ~translated THEN <<>>
               ELSE CASE geo.type = "LineString" -> _linestring_to_segments(simple.coords)
                      [] geo.type = "LinearRing" -> _linearring_to_segments(simple.coords)
                      [] geo.type = "Polygon" ->
                            IF rec.color # None
                            THEN _linearring_to_segments(simple.coords)
                                     \o InteriorSegments(simple.interiors)
                            ELSE <<>>
                      [] OTHER -> <<>>
        mesh == Len(tri.tri_pts) > 0 /\ Len(tri.tri_tris) > 0
        line == Len(pts) > 0
    IN  IF ~translated
        THEN [exc |-> "AttributeError", rec |-> rec]
        ELSE IF (mesh /\ ~ColorOK(rec.face_color)) \/ (line /\ ~ColorOK(rec.color))
        THEN [exc |-> "ValueError", rec |-> rec]
        ELSE [exc |-> None,
              rec |-> [rec EXCEPT
                  !.has_buffers = TRUE,
                  !.line_pts = pts,
                  !.line_colors = IF line THEN Repeat(Color(rec.color), Len(pts)) ELSE <<>>,
                  !.mesh_vertices = IF mesh THEN tri.tri_pts ELSE <<>>,
                  !.mesh_tris = IF mesh THEN tri.tri_tris ELSE <<>>,
                  !.mesh_colors = IF mesh THEN Repeat(Color(rec.face_color), Len(tri.tri_tris))
                                  ELSE <<>>]]

\* update_shape_buffers: the record with its buffers stored, or the
\* exception of Color() with the record as it was
update_shape_buffers(rec) ==
    LET geo == rec.geometry
        translated == geo.type # None /\ ~is_empty(geo)
        simple == simplify(geo)
        tri == IF translated /\ geo.type = "Polygon" /\ rec.face_color # None
               THEN Triangulate(triStrip(simple), [tri_tris |-> <<>>, tri_pts |-> <<>>])
               ELSE [tri_tris |-> <<>>, tri_pts |-> <<>>]
        pts == IF ~translated THEN <<>>
               ELSE CASE geo.type = "LineString" -> _linestring_to_segments(simple.coords)
                      [] geo.type = "LinearRing" -> _linearring_to_segments(simple.coords)
                      [] geo.type = "Polygon" ->
                            IF rec.color # None
                            THEN _linearring_to_segments(simple.coords)
                                     \o InteriorSegments(simple.interiors)
                            ELSE <<>>
                      [] OTHER -> <<>>
        mesh == Len(tri.tri_pts) > 0 /\ Len(tri.tri_tris) > 0
        line == Len(pts) > 0
    IN  IF (mesh /\ ~ColorOK(rec.face_color)) \/ (line /\ ~ColorOK(rec.color))
        THEN [exc |-> "ValueError", rec |-> rec]
        ELSE [exc |-> None,
              rec |-> [rec EXCEPT
                  !.has_buffers = TRUE,
                  !.line_pts = pts,
                  !.line_colors = IF line THEN Repeat(Color(rec.color), Len(pts)) ELSE <<>>,
                  !.mesh_vertices = IF mesh THEN tri.tri_pts ELSE <<>>,
                  !.mesh_tris = IF mesh THEN tri.tri_tris ELSE <<>>,
                  !.mesh_colors = IF mesh THEN Repeat(Color(rec.face_color), Len(tri.tri_tris))
                                  ELSE <<>>]]

----------------------------------------------------------------------------
(* _update: merge the shapes' buffers per layer, hand them to the visuals  *)

\* [[] for _ in range(0, len(self._meshes))], five times
EmptyBuffers(n) ==
    [line_pts |-> [i \in 0..(n - 1) |-> <<>>],
     line_colors |-> [i \in 0..(n - 1) |-> <<>>],
     mesh_tris |-> [i \in 0..(n - 1) |-> <<>>],
     mesh_vertices |-> [i \in 0..(n - 1) |-> <<>>],
     mesh_colors |-> [i \in 0..(n - 1) |-> <<>>]]

\* [[x + len(mesh_vertices[layer]) for x in y] for y in data['mesh_tris']]
OffsetTris(tris, offset) ==
    [t \in 1..Len(tris) |-> [x \in 1..Len(tris[t]) |-> tris[t][x] + offset]]

\* (a bug: the vertices are appended before the faces are offset)
MergeShapeOffsetAfter(rec, bufs, n) ==
    IF ~rec.visible THEN bufs
    ELSE IF ~ListIndexOK(n, rec.layer) \/ ~rec.has_buffers THEN bufs
    ELSE LET l == ListIndex(n, rec.layer)
             vertices == bufs.mesh_vertices[l] \o rec.mesh_vertices
         IN  [line_pts |-> [bufs.line_pts EXCEPT ![l] = @ \o rec.line_pts],
              line_colors |-> [bufs.line_colors EXCEPT ![l] = @ \o rec.line_colors],
              mesh_tris |-> [bufs.mesh_tris EXCEPT
                                ![l] = @ \o OffsetTris(rec.mesh_tris, Len(vertices))],
              mesh_vertices |-> [bufs.mesh_vertices EXCEPT ![l] = vertices],
              mesh_colors |-> [bufs.mesh_colors EXCEPT ![l] = @ \o rec.mesh_colors]]

\* (a bug: a layer that is no index of the lists is taken modulo their length)
MergeShapeWraps(rec, bufs, n) ==
    IF ~rec.visible THEN bufs
    ELSE IF ~rec.has_buffers THEN bufs
    ELSE LET l == rec.layer % n
         IN  [line_pts |-> [bufs.line_pts EXCEPT ![l] = @ \o rec.line_pts],
              line_colors |-> [bufs.line_colors EXCEPT ![l] = @ \o rec.line_colors],
              mesh_tris |-> [bufs.mesh_tris EXCEPT
                                ![l] = @ \o OffsetTris(rec.mesh_tris, Len(bufs.mesh_vertices[l]))],
              mesh_vertices |-> [bufs.mesh_vertices EXCEPT ![l] = @ \o rec.mesh_vertices],
              mesh_colors |-> [bufs.mesh_colors EXCEPT ![l] = @ \o rec.mesh_colors]]

\* The body of the loop for one shape. The first statement of the try block
\* raises IndexError (the layer is no index of the lists) or KeyError (the
\* shape has no buffers) before anything is appended; the except clause
\* prints and the loop goes on.
MergeShape(rec, bufs, n) ==
    IF ~rec.visible THEN bufs
    ELSE IF ~ListIndexOK(n, rec.layer) \/ ~rec.has_buffers THEN bufs
    ELSE LET l == ListIndex(n, rec.layer)
         IN  [line_pts |-> [bufs.line_pts EXCEPT ![l] = @ \o rec.line_pts],
              line_colors |-> [bufs.line_colors EXCEPT ![l] = @ \o rec.line_colors],
              mesh_tris |-> [bufs.mesh_tris EXCEPT
                                ![l] = @ \o OffsetTris(rec.mesh_tris, Len(bufs.mesh_vertices[l]))],
              mesh_vertices |-> [bufs.mesh_vertices EXCEPT ![l] = @ \o rec.mesh_vertices],
              mesh_colors |-> [bufs.mesh_colors EXCEPT ![l] = @ \o rec.mesh_colors]]

\* for data in self.data.values(): ...
RECURSIVE MergeShapes(_, _, _, _)
MergeShapes(d, ord, bufs, n) ==
    IF ord = <<>>
    THEN bufs
    ELSE MergeShapes(d, Tail(ord), MergeShape(d[Head(ord)], bufs, n), n)

\* what a MeshVisual holds after set_data() without arguments, what a
\* LineVisual holds when it is built
NoMesh == [vertices |-> <<>>, faces |-> <<>>, face_colors |-> <<>>]

NoLine == [pos |-> <<>>, color |-> <<>>]

\* LineVisual.clear_data: the positions are dropped, the colors stay
clear_data(line) == [line EXCEPT !.pos = <<>>]

\* mesh.set_data(vertices, tris, face_colors=colors), or mesh.set_data()
UpdateMesh(bufs, i) ==
    IF Len(bufs.mesh_vertices[i]) > 0
    THEN [vertices |-> bufs.mesh_vertices[i], faces |-> bufs.mesh_tris[i],
          face_colors |-> bufs.mesh_colors[i]]
    ELSE NoMesh

\* (a bug: an empty layer is skipped, its line visual is left as it is)
UpdateLineSkipsEmpty(bufs, i, line) ==
    IF Len(bufs.line_pts[i]) > 0
    THEN [pos |-> bufs.line_pts[i], color |-> bufs.line_colors[i]]
    ELSE line

\* line.set_data(pts, colors, width, 'segments'), or line.clear_data()
UpdateLine(bufs, i, line) ==
    IF Len(bufs.line_pts[i]) > 0
    THEN [pos |-> bufs.line_pts[i], color |-> bufs.line_colors[i]]
    ELSE clear_data(line)

\* (a bug: no call is made for a layer without data)
UpdateCallsSkipEmpty(bufs, n) ==
    SelectSeq([i \in 1..n |-> [visual |-> "mesh", layer |-> i - 1, call |-> "set_data"]],
              LAMBDA c : Len(bufs.mesh_vertices[c.layer]) > 0)
    \o
    SelectSeq([i \in 1..n |-> [visual |-> "line", layer |-> i - 1, call |-> "set_data"]],
              LAMBDA c : Len(bufs.line_pts[c.layer]) > 0)

\* the calls of the two loops over the visuals, in the order they are made
UpdateCalls(bufs, n) ==
    [i \in 1..n |-> [visual |-> "mesh", layer |-> i - 1,
                     call |-> IF Len(bufs.mesh_vertices[i - 1]) > 0
                              THEN "set_data" ELSE "set_data()"]]
    \o
    [i \in 1..n |-> [visual |-> "line", layer |-> i - 1,
                     call |-> IF Len(bufs.line_pts[i - 1]) > 0
                              THEN "set_data" ELSE "clear_data"]]

\* (a bug: the line buffers start from what the line visuals hold)
_update_appends(d, ord, lns, n) ==
    LET start == [EmptyBuffers(n) EXCEPT
                     !.line_pts = [i \in 0..(n - 1) |-> lns[i].pos],
                     !.line_colors = [i \in 0..(n - 1) |-> IF lns[i].pos = <<>> THEN <<>>
                                                            ELSE lns[i].color]]
        bufs == MergeShapes(d, ord, start, n)
    IN  [meshes |-> [i \in 0..(n - 1) |-> UpdateMesh(bufs, i)],
         lines |-> [i \in 0..(n - 1) |-> UpdateLine(bufs, i, lns[i])],
         calls |-> UpdateCalls(bufs, n)]

\* _update on the store d iterated in the order ord, with the line visuals lns
_update(d, ord, lns, n) ==
    LET bufs == MergeShapes(d, ord, EmptyBuffers(n), n)
    IN  [meshes |-> [i \in 0..(n - 1) |-> UpdateMesh(bufs, i)],
         lines |-> [i \in 0..(n - 1) |-> UpdateLine(bufs, i, lns[i])],
         calls |-> UpdateCalls(bufs, n)]

----------------------------------------------------------------------------
(* The arguments the operations are called with *)

\* layer arguments: the layers, one above them, and -1
LayerArgs == (0 - 1)..MaxLayers

AddArg(shape, color, face_color, visible, layer) ==
    [shape |-> shape, color |-> color, face_color |-> face_color,
     visible |-> visible, layer |-> layer]

\* the shapes add is called with: a filled triangle in each layer argument,
\* a hidden one, a square with its outline, a line, a point, and a triangle
\* with an outline color whose fill is no color
AddArgs ==
    {AddArg(PolyA, None, Blue, TRUE, l) : l \in LayerArgs}
    \cup {AddArg(PolyA, None, Blue, FALSE, 0),
          AddArg(PolyB, Red, Blue, TRUE, 1),
          AddArg(LineA, Red, None, TRUE, 0),
          AddArg(PointA, Red, Blue, TRUE, 0),
          AddArg(PolyA, Red, BadColor, TRUE, 0)}

\* the shapes ShapeGroup.add is called with: a filled triangle, shown or
\* hidden, in layer 0 or in a layer that does not exist, and a line
GroupAddArgs ==
    {AddArg(PolyA, None, Blue, v, l) : v \in BOOLEAN, l \in {0, MaxLayers}}
    \cup {AddArg(LineA, Red, None, TRUE, 0)}

\* the shapes add is called with where the translation is looked at, all
\* shown and in layer 0: a polygon, a line and a ring with and without
\* their colors, a polygon with a hole, no geometry, an empty line and an
\* empty polygon
ShapeArgs ==
    {AddArg(PolyA, c, f, TRUE, 0) : c \in {None, Red}, f \in {None, Blue}}
    \cup {AddArg(g, c, None, TRUE, 0) : g \in {LineB, RingA}, c \in {None, Red}}
    \cup {AddArg(PolyHole, Red, Blue, TRUE, 0),
          AddArg(NoGeo, Red, Blue, TRUE, 0),
          AddArg(EmptyLine, Red, Blue, TRUE, 0),
          AddArg(EmptyPoly, Red, Blue, TRUE, 0)}

\* the points of the lists the static segment methods are called with, and
\* the lists
Points == {<<0, 0>>, <<8, 0>>, <<0, 8>>}

Arrays == UNION {[1..n -> Points] : n \in 0..MaxLen}

\* the interiors of the polygons whose outline is looked at: none, one
\* ring, two rings
HoleA == << <<1, 1>>, <<1, 2>>, <<2, 1>>, <<1, 1>> >>

HoleB == << <<4, 1>>, <<4, 2>>, <<5, 1>>, <<4, 1>> >>

Interiors == {<<>>, <<HoleA>>, <<HoleA, HoleB>>}

Keys == 0..(MaxAdds - 1)

----------------------------------------------------------------------------
(* The operations *)

EmptyStore == [k \in {} |-> NoValue]

Result(op, update, exc, value) == [op |-> op, update |-> update, exc |-> exc, value |-> value]

\* (a bug: the key is the number of shapes in the store)
NextKeyIsLen(key, d) == Cardinality(DOMAIN d)

\* self.last_key += 1
NextKey(key, d) == key + 1

\* self.data.pop(key) for each key of ks
Without(d, ks) == [k \in (DOMAIN d) \ ks |-> d[k]]

\* the order of the keys that stay: popping moves no other entry
OrderWithout(ord, ks) == SelectSeq(ord, LAMBDA k : k \notin ks)

\* (a bug: the update argument is not looked at)
UpdateAlways(update) ==
    LET u == _update(data', order', lines, layers)
    IN  /\ meshes' = u.meshes
        /\ lines' = u.lines
        /\ calls' = u.calls

\* if update: self._update(), on the store as the operation leaves it
Update(update) ==
    LET u == _update(data', order', lines, layers)
    IN  IF update
        THEN /\ meshes' = u.meshes
             /\ lines' = u.lines
             /\ calls' = u.calls
        ELSE /\ UNCHANGED <<meshes, lines>>
             /\ calls' = <<>>

\* the same for the collection that is always called with update=True
UpdateNow(update) ==
    LET u == _update(data', order', now_lines, layers)
    IN  IF update
        THEN /\ now_meshes' = u.meshes
             /\ now_lines' = u.lines
        ELSE UNCHANGED <<now_meshes, now_lines>>

\* ShapeCollectionVisual.add; through ShapeGroup.add when group is TRUE,
\* which appends the returned key to its indexes
AddShape(a, update, group) ==
    LET key == NextKey(last_key, data)
        done == update_shape_buffers(Shape(a.shape, a.color, a.face_color, a.visible, a.layer))
        op == IF group THEN "group.add" ELSE "add"
    IN  /\ key < MaxAdds
        /\ last_key' = key
        /\ data' = [k \in (DOMAIN data) \cup {key} |-> IF k = key THEN done.rec ELSE data[k]]
        \* a key the dict holds would keep one entry; last_key + 1 is never held
        /\ order' \in Inserted(OrderWithout(order, {key}), key)
        /\ UNCHANGED <<layers, gvisible, given, segments>>
        /\ IF done.exc # None
           THEN /\ result' = Result(op, update, done.exc, NoValue)
                /\ returned' = Append(returned, NoValue)
                /\ UNCHANGED indexes
                /\ Update(FALSE)
                /\ UpdateNow(FALSE)
           ELSE /\ result' = Result(op, update, None, IF group THEN NoValue ELSE key)
                /\ returned' = Append(returned, key)
                /\ indexes' = IF group THEN Append(indexes, key) ELSE indexes
                /\ Update(update)
                /\ UpdateNow(TRUE)

Add == \E a \in AddArgs, update \in BOOLEAN : AddShape(a, update, FALSE)

AddAnyShape == \E a \in ShapeArgs, update \in BOOLEAN : AddShape(a, update, FALSE)

\* add of the square with its outline, a shape of no group
AddSquare == \E update \in BOOLEAN : AddShape(AddArg(PolyB, Red, Blue, TRUE, 1), update, FALSE)

GroupAdd == \E a \in GroupAddArgs, update \in BOOLEAN : AddShape(a, update, TRUE)

\* ShapeCollectionVisual.remove
RemoveKey(key, update) ==
    /\ UNCHANGED <<layers, last_key, indexes, gvisible, returned, given, segments>>
    /\ IF key \notin DOMAIN data
       THEN /\ result' = Result("remove", update, "KeyError", NoValue)
            /\ UNCHANGED <<data, order>>
            /\ Update(FALSE)
            /\ UpdateNow(FALSE)
       ELSE /\ result' = Result("remove", update, None, NoValue)
            /\ data' = Without(data, {key})
            /\ order' = OrderWithout(order, {key})
            /\ Update(update)
            /\ UpdateNow(TRUE)

Remove == \E key \in Keys, update \in BOOLEAN : RemoveKey(key, update)

\* ShapeCollectionVisual.clear
ClearAll(update) ==
    /\ UNCHANGED <<layers, last_key, indexes, gvisible, returned, given, segments>>
    /\ result' = Result("clear", update, None, NoValue)
    /\ data' = EmptyStore
    /\ order' = <<>>
    /\ Update(update)
    /\ UpdateNow(TRUE)

Clear == \E update \in BOOLEAN : ClearAll(update)

\* ShapeCollectionVisual.redraw; the second collection has redrawn in each
\* call and is not called
Redraw ==
    /\ UNCHANGED <<layers, last_key, indexes, gvisible, data, order, returned, given, segments>>
    /\ result' = Result("redraw", FALSE, None, NoValue)
    /\ Update(TRUE)
    /\ UpdateNow(FALSE)

\* the indexes the loops of ShapeGroup reach: all of them, or those before
\* the first one that is no key of the store, where the loop raises KeyError
Missing == {i \in 1..Len(indexes) : indexes[i] \notin DOMAIN data}

Reached ==
    IF Missing = {}
    THEN {indexes[i] : i \in 1..Len(indexes)}
    ELSE {indexes[i] : i \in 1..((CHOOSE m \in Missing : \A o \in Missing : m <= o) - 1)}

\* ShapeGroup.clear
GroupClearAll(update) ==
    /\ UNCHANGED <<layers, last_key, gvisible, returned, given, segments>>
    /\ data' = Without(data, Reached)
    /\ order' = OrderWithout(order, Reached)
    /\ IF Missing # {}
       THEN /\ result' = Result("group.clear", update, "KeyError", NoValue)
            /\ UNCHANGED indexes
            /\ Update(FALSE)
            /\ UpdateNow(FALSE)
       ELSE /\ result' = Result("group.clear", update, None, NoValue)
            /\ indexes' = <<>>
            /\ Update(update)
            /\ UpdateNow(TRUE)

GroupClear == \E update \in BOOLEAN : GroupClearAll(update)

\* (a bug: the setter stores the shapes it reaches anew, without buffers)
SetVisibleStoresAnew(value) ==
    /\ UNCHANGED <<layers, last_key, indexes, order, returned, given, segments>>
    /\ gvisible' = value
    /\ data' = [k \in DOMAIN data |->
                   IF k \in Reached
                   THEN Shape(data[k].geometry, data[k].color, data[k].face_color, value,
                              data[k].layer)
                   ELSE data[k]]
    /\ IF Missing # {}
       THEN /\ result' = Result("group.visible", FALSE, "KeyError", NoValue)
            /\ Update(FALSE)
            /\ UpdateNow(FALSE)
       ELSE /\ result' = Result("group.visible", FALSE, None, NoValue)
            /\ Update(TRUE)
            /\ UpdateNow(TRUE)

\* ShapeGroup.visible = value
SetVisible(value) ==
    /\ UNCHANGED <<layers, last_key, indexes, order, returned, given, segments>>
    /\ gvisible' = value
    /\ data' = [k \in DOMAIN data |->
                   IF k \in Reached THEN [data[k] EXCEPT !.visible = value] ELSE data[k]]
    /\ IF Missing # {}
       THEN /\ result' = Result("group.visible", FALSE, "KeyError", NoValue)
            /\ Update(FALSE)
            /\ UpdateNow(FALSE)
       ELSE /\ result' = Result("group.visible", FALSE, None, NoValue)
            /\ Update(TRUE)
            /\ UpdateNow(TRUE)

GroupVisible == \E value \in BOOLEAN : SetVisible(value)

\* ShapeCollectionVisual._linestring_to_segments(given)
LineToSegments ==
    /\ segments = None
    /\ segments' = _linestring_to_segments(given)
    /\ result' = Result("_linestring_to_segments", FALSE, None, NoValue)
    /\ UNCHANGED <<layers, data, order, last_key, meshes, lines, calls, indexes, gvisible,
                   returned, now_meshes, now_lines, given>>

\* ShapeCollectionVisual._linearring_to_segments(given): arr[0] raises
\* IndexError on an empty list; the closing point is appended to the list
\* of the caller
RingToSegments ==
    /\ segments = None
    /\ UNCHANGED <<layers, data, order, last_key, meshes, lines, calls, indexes, gvisible,
                   returned, now_meshes, now_lines>>
    /\ IF given = <<>>
       THEN /\ result' = Result("_linearring_to_segments", FALSE, "IndexError", NoValue)
            /\ UNCHANGED <<given, segments>>
       ELSE /\ result' = Result("_linearring_to_segments", FALSE, None, NoValue)
            /\ given' = IF given[1] # given[Len(given)] THEN Append(given, given[1]) ELSE given
            /\ segments' = _linearring_to_segments(given)

\* add of the Polygon whose shell is the list, when the list is a ring of
\* three or more different points, with some interiors and a stroke color
AddStroked ==
    /\ Len(given) >= 3
    /\ \A i, j \in 1..Len(given) : i # j => given[i] # given[j]
    /\ \E ints \in Interiors, update \in BOOLEAN :
           AddShape(AddArg(Geo("Polygon", Append(given, given[1]), ints), Red, None, TRUE, 0),
                    update, FALSE)

\* ShapeCollectionVisual(layers=n) and ShapeGroup(collection)
Init ==
    /\ layers = MaxLayers
    /\ data = EmptyStore
    /\ order = <<>>
    /\ last_key = 0 - 1
    /\ meshes = [i \in 0..(layers - 1) |-> NoMesh]
    /\ lines = [i \in 0..(layers - 1) |-> NoLine]
    /\ calls = <<>>
    /\ indexes = <<>>
    /\ gvisible = TRUE
    /\ result = Result("__init__", FALSE, None, NoValue)
    /\ returned = <<>>
    /\ now_meshes = meshes
    /\ now_lines = lines
    /\ given = <<>>
    /\ segments = None

\* the collection used directly
Next ==
    \/ Add
    \/ Remove
    \/ Clear
    \/ Redraw

Spec == Init /\ [][Next]_vars

\* the collection used directly and through one ShapeGroup
NextGroup ==
    \/ Add
    \/ GroupAdd
    \/ Remove
    \/ Clear
    \/ Redraw
    \/ GroupClear
    \/ GroupVisible

SpecGroup == Init /\ [][NextGroup]_vars

\* the collection used through one ShapeGroup, next to one kind of shape
\* that is added directly
NextOneGroup ==
    \/ AddSquare
    \/ GroupAdd
    \/ Remove
    \/ Redraw
    \/ GroupClear
    \/ GroupVisible

SpecOneGroup == Init /\ [][NextOneGroup]_vars

\* the constructor, and a list for the static segment methods
InitSegments ==
    /\ layers = MaxLayers
    /\ data = EmptyStore
    /\ order = <<>>
    /\ last_key = 0 - 1
    /\ meshes = [i \in 0..(layers - 1) |-> NoMesh]
    /\ lines = [i \in 0..(layers - 1) |-> NoLine]
    /\ calls = <<>>
    /\ indexes = <<>>
    /\ gvisible = TRUE
    /\ result = Result("__init__", FALSE, None, NoValue)
    /\ returned = <<>>
    /\ now_meshes = meshes
    /\ now_lines = lines
    /\ given \in Arrays
    /\ segments = None

\* the static segment methods on a list, and add of the polygon of the list
NextSegments ==
    \/ LineToSegments
    \/ RingToSegments
    \/ AddStroked

SpecSegments == InitSegments /\ [][NextSegments]_vars

\* the collection with the shapes whose translation is looked at
NextShapes ==
    \/ AddAnyShape
    \/ Redraw

SpecShapes == Init /\ [][NextShapes]_vars

----------------------------------------------------------------------------
(* The claims *)

\* C1: add takes its ids from a counter that starts at 0 and only grows:
\* the k-th call of add returns k-1 when it returns, each returned id is
\* greater than every id returned before it, whatever was removed or
\* cleared in between, and the store holds no id that was not handed out.
C1_IdsNeverReused ==
    /\ last_key = Len(returned) - 1
    /\ \A k \in 1..Len(returned) : returned[k] \in {k - 1, NoValue}
    /\ \A j, k \in 1..Len(returned) :
           (j < k /\ returned[j] # NoValue /\ returned[k] # NoValue) => returned[j] < returned[k]
    /\ \A key \in DOMAIN data : key >= 0 /\ key <= last_key
    /\ (result.op = "add" /\ result.exc = None) => result.value = last_key

\* C1 witness: the second add has just returned id 1 into a store that id 0
\* has left
C1_Witness ==
    /\ result.op = "add"
    /\ result.exc = None
    /\ returned = <<0, 1>>
    /\ DOMAIN data = {1}

\* C2: remove never raises: it deletes the shape of a key of the store and
\* leaves the store as it is for any other key; clear never raises and
\* leaves the store empty, also when it was empty.
C2_RemoveAbsentIsNoOp ==
    [][ /\ (result'.op = "remove") =>
               (result'.exc = None /\ \E key \in Keys : data' = Without(data, {key}))
        /\ (result'.op = "clear") => (result'.exc = None /\ data' = EmptyStore) ]_vars

\* what a line visual draws: nothing without positions, whatever colors it
\* still holds
LineShown(line) == IF line.pos = <<>> THEN NoLine ELSE line

Shown(ms, ls) == [i \in DOMAIN ms |-> [mesh |-> ms[i], line |-> LineShown(ls[i])]]

\* C3: add, remove and clear with update=False change the store and leave
\* the visuals as they were, making no call on them; and once redraw() has
\* run after such calls the visuals show what they show in a collection
\* that got the same add, remove and clear calls with update=True.
C3_DeferredRedraw ==
    [][ LET deferred == result'.op \in {"add", "remove", "clear"} /\ ~result'.update
        IN  /\ deferred => (meshes' = meshes /\ lines' = lines /\ calls' = <<>>)
            /\ (deferred /\ result'.op = "add") =>
                   (last_key' \in DOMAIN data' /\ last_key' \notin DOMAIN data)
            /\ (deferred /\ result'.op = "remove" /\ result'.exc = None) =>
                   Cardinality(DOMAIN data') = Cardinality(DOMAIN data) - 1
            /\ (deferred /\ result'.op = "clear") => data' = EmptyStore
            /\ (result'.op = "redraw") =>
                   Shown(meshes', lines') = Shown(now_meshes', now_lines') ]_vars

\* C3 witness: redraw() has run after deferred calls (the line visual never
\* got the line that the other collection drew and cleared) and shows a mesh
C3_Witness ==
    /\ result.op = "redraw"
    /\ lines # now_lines
    /\ \E i \in 0..(layers - 1) : meshes[i].vertices # <<>>

\* the keys of the visible shapes of layer i of n in the store d, in the
\* order ord of the store; a negative layer counts from the last layer, as
\* list indexes do
ContributorsOf(d, ord, n, i) ==
    SelectSeq(ord, LAMBDA k : d[k].visible /\ d[k].layer \in {i, i - n})

Contributors(i) == ContributorsOf(data, order, layers, i)

\* the buffers of the shapes ks of the store d, one after the other
JoinedOf(d, ks, buffer) == Flatten([j \in 1..Len(ks) |-> d[ks[j]][buffer]])

Joined(ks, buffer) == JoinedOf(data, ks, buffer)

\* C4: when _update has run, the mesh and the line visual of every layer
\* hold the buffers of the visible shapes of the store in that layer, one
\* after the other, and nothing else; a layer without such data has its
\* mesh reset and the positions of its line dropped.
C4_VisualsHoldTheStore ==
    calls # <<>> =>
        \A i \in 0..(layers - 1) :
            LET ks == Contributors(i)
            IN  /\ meshes[i].vertices = Joined(ks, "mesh_vertices")
                /\ meshes[i].face_colors = Joined(ks, "mesh_colors")
                /\ Len(meshes[i].faces) = Len(Joined(ks, "mesh_tris"))
                /\ LineShown(lines[i]).pos = Joined(ks, "line_pts")
                /\ LineShown(lines[i]).color = Joined(ks, "line_colors")
                /\ (Joined(ks, "mesh_vertices") = <<>>) => (meshes[i] = NoMesh)
                /\ (Joined(ks, "line_pts") = <<>>) => (lines[i].pos = <<>>)

\* C4 witness: _update has run on a store without shapes, after a line had
\* been drawn: its positions are gone
C4_Witness ==
    /\ calls # <<>>
    /\ DOMAIN data = {}
    /\ \E i \in 0..(layers - 1) : lines[i].color # <<>> /\ lines[i].pos = <<>>

\* C6: every _update makes one call on the mesh visual and one on the line
\* visual of every layer 0 .. layers-1, and on no other; for a layer
\* without data the call is the one that empties the visual.
C6_EveryLayerEveryRedraw ==
    /\ (result.op = "redraw") => (calls # <<>>)
    /\ (result.op \in {"add", "remove", "clear"} /\ result.update /\ result.exc = None)
           => (calls # <<>>)
    /\ calls # <<>> =>
        /\ Len(calls) = 2 * layers
        /\ DOMAIN meshes = 0..(layers - 1)
        /\ DOMAIN lines = 0..(layers - 1)
        /\ \A c \in 1..Len(calls) : calls[c].layer \in 0..(layers - 1)
        /\ \A i \in 0..(layers - 1) :
            /\ \E c \in 1..Len(calls) :
                /\ calls[c].visual = "mesh"
                /\ calls[c].layer = i
                /\ calls[c].call = IF Joined(Contributors(i), "mesh_vertices") = <<>>
                                   THEN "set_data()" ELSE "set_data"
                /\ \A o \in 1..Len(calls) :
                       (calls[o].visual = "mesh" /\ calls[o].layer = i) => o = c
            /\ \E c \in 1..Len(calls) :
                /\ calls[c].visual = "line"
                /\ calls[c].layer = i
                /\ calls[c].call = IF Joined(Contributors(i), "line_pts") = <<>>
                                   THEN "clear_data" ELSE "set_data"
                /\ \A o \in 1..Len(calls) :
                       (calls[o].visual = "line" /\ calls[o].layer = i) => o = c

\* C6 witness: _update has run with two layers of which one has a mesh
C6_Witness ==
    /\ calls # <<>>
    /\ layers = 2
    /\ meshes[0] = NoMesh
    /\ meshes[1] # NoMesh
    /\ lines[0].pos = <<>>
    /\ lines[1].pos = <<>>

\* the faces of the shapes ks, each moved by the number of vertices of the
\* shapes before it
RECURSIVE Remapped(_, _)
Remapped(ks, before) ==
    IF ks = <<>>
    THEN <<>>
    ELSE LET rec == data[Head(ks)]
         IN  [t \in 1..Len(rec.mesh_tris) |->
                 <<rec.mesh_tris[t][1] + before, rec.mesh_tris[t][2] + before,
                   rec.mesh_tris[t][3] + before>>]
             \o Remapped(Tail(ks), before + Len(rec.mesh_vertices))

\* C7: when _update has run, the faces of every layer are the faces of its
\* visible shapes in order, each index moved by the number of vertices the
\* shapes before it gave to that layer (and to no other); two shapes of 3
\* vertices and face [0,1,2] in one layer give 6 vertices and the faces
\* [0,1,2] and [3,4,5].
C7_FacesAreRemapped ==
    calls # <<>> =>
        \A i \in 0..(layers - 1) :
            LET ks == Contributors(i)
            IN  /\ meshes[i].faces = Remapped(ks, 0)
                /\ meshes[i].vertices = Joined(ks, "mesh_vertices")
                /\ ( /\ Len(ks) = 2
                     /\ \A j \in 1..2 : /\ Len(data[ks[j]].mesh_vertices) = 3
                                        /\ data[ks[j]].mesh_tris = << <<0, 1, 2>> >> )
                   => ( /\ Len(meshes[i].vertices) = 6
                        /\ meshes[i].faces = << <<0, 1, 2>>, <<3, 4, 5>> >> )

\* C7 witness: _update has merged two triangles into one layer
C7_Witness ==
    /\ calls # <<>>
    /\ \E i \in 0..(layers - 1) :
        /\ Len(Contributors(i)) = 2
        /\ Len(meshes[i].vertices) = 6
        /\ meshes[i].faces = << <<0, 1, 2>>, <<3, 4, 5>> >>

\* C9: redraw() right after redraw() makes the same calls with the same
\* buffers and leaves every visual as the first left it; no redraw()
\* changes the store.
C9_RedrawIsIdempotent ==
    [][ /\ (result'.op = "redraw") => (data' = data /\ order' = order /\ last_key' = last_key)
        /\ (result.op = "redraw" /\ result'.op = "redraw") =>
               (meshes' = meshes /\ lines' = lines /\ calls' = calls) ]_vars

\* C9 witness: redraw() has run on a store that gives a mesh and a line
C9_Witness ==
    /\ result.op = "redraw"
    /\ \E i \in 0..(layers - 1) : meshes[i].vertices # <<>>
    /\ \E i \in 0..(layers - 1) : lines[i].pos # <<>>

\* C5: a hidden shape gives nothing to any layer; when ShapeGroup.visible
\* = True has shown a shape that was hidden and has vertices or points, the
\* shape is in the buffers of its layer, which is one of 0 .. layers-1, and
\* of no other layer.
C5_HiddenUntilShown ==
    [][ /\ calls' # <<>> =>
               \A i \in 0..(layers - 1) :
                   LET ks == ContributorsOf(data', order', layers, i)
                   IN  /\ meshes'[i].vertices = JoinedOf(data', ks, "mesh_vertices")
                       /\ LineShown(lines'[i]).pos = JoinedOf(data', ks, "line_pts")
        /\ (result'.op = "group.visible" /\ result'.exc = None) =>
               \A k \in DOMAIN data :
                   ( /\ ~data[k].visible
                     /\ data'[k].visible
                     /\ (data'[k].mesh_vertices # <<>> \/ data'[k].line_pts # <<>>) )
                   => \E i \in 0..(layers - 1) :
                          /\ \E j \in 1..Len(ContributorsOf(data', order', layers, i)) :
                                 ContributorsOf(data', order', layers, i)[j] = k
                          /\ \A o \in 0..(layers - 1) :
                                 (\E j \in 1..Len(ContributorsOf(data', order', layers, o)) :
                                      ContributorsOf(data', order', layers, o)[j] = k) => o = i
                          /\ meshes'[i].vertices # <<>> \/ lines'[i].pos # <<>> ]_vars

\* C8: every shape of the store has a layer in 0 .. layers-1 (add raises
\* for any other layer and stores nothing).
C8_LayersInRange ==
    \A k \in DOMAIN data : data[k].layer \in 0..(layers - 1)

\* C10: every shape of the store is a line, a ring or a polygon, or has no
\* geometry (add raises for any other geometry and stores nothing).
C10_OnlySupportedKinds ==
    \A k \in DOMAIN data :
        data[k].geometry.type \in {"LineString", "LinearRing", "Polygon", None}

\* C11: a stored shape without stroke color has no points, and one without
\* fill color has no vertices and no faces, whatever its geometry is; the
\* mesh colors are as many as the faces, the line colors as many as the
\* points.
C11_NoColorNoFragment ==
    \A k \in DOMAIN data :
        data[k].has_buffers =>
            /\ (data[k].color = None) => (data[k].line_pts = <<>>)
            /\ (data[k].face_color = None) =>
                   (data[k].mesh_vertices = <<>> /\ data[k].mesh_tris = <<>>)
            /\ Len(data[k].mesh_colors) = Len(data[k].mesh_tris)
            /\ Len(data[k].line_colors) = Len(data[k].line_pts)

\* the shapes of the store that have no geometry, or an empty one
EmptyShapes == {k \in DOMAIN data : data[k].geometry.type = None \/ is_empty(data[k].geometry)}

\* C12: add of a shape without geometry, or with an empty one, returns its
\* id; the shape is in the store with its five buffers stored and empty;
\* and what _update gives the visuals is what it gives them for the store
\* without such shapes.
C12_EmptyGeometryIsStored ==
    /\ \A k \in EmptyShapes :
           /\ data[k].has_buffers
           /\ data[k].line_pts = <<>> /\ data[k].line_colors = <<>>
           /\ data[k].mesh_vertices = <<>> /\ data[k].mesh_tris = <<>>
           /\ data[k].mesh_colors = <<>>
    /\ (result.op = "add" /\ last_key \in EmptyShapes) =>
           (result.exc = None /\ result.value = last_key /\ returned[Len(returned)] = last_key)
    /\ calls # <<>> =>
           LET u == _update(Without(data, EmptyShapes), OrderWithout(order, EmptyShapes),
                            lines, layers)
           IN  /\ meshes = u.meshes
               /\ \A i \in 0..(layers - 1) : LineShown(lines[i]) = LineShown(u.lines[i])

\* C12 witness: add has returned the id of a shape without geometry and
\* has redrawn a store that also holds a shape with a mesh
C12_Witness ==
    /\ result.op = "add"
    /\ result.exc = None
    /\ calls # <<>>
    /\ last_key \in DOMAIN data
    /\ data[last_key].geometry = NoGeo
    /\ \E i \in 0..(layers - 1) : meshes[i].vertices # <<>>

\* C13: the store holds no shape without its buffers; a polygon whose
\* stroke color is a color has its outline points stored and one whose
\* fill color is a color has its mesh stored, whatever the other color is.
C13_BadColorSparesTheOtherPart ==
    \A k \in DOMAIN data :
        /\ data[k].has_buffers
        /\ (data[k].geometry.type = "Polygon" /\ ~is_empty(data[k].geometry)) =>
               /\ data[k].color \in {Red, Blue} => data[k].line_pts # <<>>
               /\ data[k].face_color \in {Red, Blue} => data[k].mesh_vertices # <<>>

\* the visible shapes on which the try block of _update raises: their layer
\* is no index of the per-layer lists, or they have no buffers
Offending ==
    {k \in DOMAIN data :
        data[k].visible /\ (~ListIndexOK(layers, data[k].layer) \/ ~data[k].has_buffers)}

\* C14: when _update has run, it has made its calls on the visuals of all
\* layers, and every visual holds what _update gives it for the store
\* without the shapes on which the try block raises: such a shape gives
\* nothing to any layer and changes nothing in what the others give.
C14_ErrorsSkipOneShape ==
    calls # <<>> =>
        LET u == _update(Without(data, Offending), OrderWithout(order, Offending), lines, layers)
        IN  /\ Len(calls) = 2 * layers
            /\ calls = u.calls
            /\ meshes = u.meshes
            /\ \A i \in 0..(layers - 1) : LineShown(lines[i]) = LineShown(u.lines[i])

\* C14 witness: _update has run on a store with a shape whose layer is no
\* index, or with one without buffers, and another shape has given a mesh
C14_Witness ==
    /\ calls # <<>>
    /\ Offending # {}
    /\ \E k \in Offending : ~ListIndexOK(layers, data[k].layer)
    /\ \E i \in 0..(layers - 1) : meshes[i].vertices # <<>>

\* what add has stored of a shape, but for its visibility
Cached(rec) == [rec EXCEPT !.visible = TRUE]

\* C15: no call changes the geometry, the colors, the layer or one of the
\* five buffers of a shape that is in the store before and after it:
\* neither redraw, nor ShapeGroup.visible, nor add, remove or clear of
\* other shapes; redraw changes nothing in the store, and
\* ShapeGroup.visible nothing but the visibility of shapes.
C15_BuffersAreComputedOnce ==
    [][ /\ \A k \in (DOMAIN data) \cap (DOMAIN data') : Cached(data'[k]) = Cached(data[k])
        /\ (result'.op = "redraw") => (data' = data)
        /\ (result'.op = "group.visible") => (DOMAIN data' = DOMAIN data) ]_vars

\* C15 witness: ShapeGroup.visible = True has run and redrawn a shape of
\* the group with a mesh, next to a shape that is not of the group
C15_Witness ==
    /\ result.op = "group.visible"
    /\ result.exc = None
    /\ gvisible
    /\ \E k \in DOMAIN data :
           /\ \E j \in 1..Len(indexes) : indexes[j] = k
           /\ data[k].visible
           /\ data[k].mesh_vertices # <<>>
    /\ \E k \in DOMAIN data : \A j \in 1..Len(indexes) : indexes[j] # k
    /\ \E i \in 0..(layers - 1) : meshes[i].vertices # <<>>

\* every index of the faces is one of the n vertices
IndexesBelow(faces, n) ==
    \A t \in 1..Len(faces) : \A x \in 1..Len(faces[t]) : faces[t][x] >= 0 /\ faces[t][x] < n

\* the faces of strip j of the strips: [y, y+1, y+2] for y from 0, moved by
\* the number of vertices of the strips before j
FacesOfStrip(strips, j) ==
    LET before == Len(Flatten(SubSeq(strips, 1, j - 1)))
    IN  [t \in 1..(Len(strips[j]) - 2) |-> <<before + t - 1, before + t, before + t + 1>>]

\* C16: every index in the faces of a stored shape is below the number of
\* its vertices, and every index in the faces a mesh visual holds is below
\* the number of the vertices it holds; the vertices of a polygon with a
\* mesh are its strips one after the other, and its faces are those of
\* each strip, numbered from the number of vertices of the strips before.
C16_FaceIndexesAreVertices ==
    /\ \A k \in DOMAIN data :
           /\ IndexesBelow(data[k].mesh_tris, Len(data[k].mesh_vertices))
           /\ data[k].mesh_vertices # <<>> =>
                  LET strips == triStrip(simplify(data[k].geometry))
                  IN  /\ data[k].mesh_vertices = Flatten(strips)
                      /\ data[k].mesh_tris =
                             Flatten([j \in 1..Len(strips) |-> FacesOfStrip(strips, j)])
    /\ \A i \in 0..(layers - 1) : IndexesBelow(meshes[i].faces, Len(meshes[i].vertices))
    /\ \A i \in 0..(layers - 1) : IndexesBelow(now_meshes[i].faces, Len(now_meshes[i].vertices))

\* C16 witness: the mesh of the square with a hole, of four strips, is in
\* one layer behind the mesh of a triangle
C16_Witness ==
    /\ calls # <<>>
    /\ \E k \in DOMAIN data :
           /\ Len(triStrip(simplify(data[k].geometry))) = 4
           /\ Len(data[k].mesh_vertices) = 16
           /\ data[k].mesh_tris[8] = <<13, 14, 15>>
    /\ Len(meshes[0].vertices) = 19
    /\ meshes[0].faces[9] = <<16, 17, 18>>

\* p0,p1, p1,p2, ... of the points c
Pairs(c) == [i \in 1..(2 * (Len(c) - 1)) |-> c[(i \div 2) + 1]]

\* the points c with the first point as closing point when it is not there
Closed(c) == IF c[1] # c[Len(c)] THEN Append(c, c[1]) ELSE c

RECURSIVE RingPairs(_)
RingPairs(rings) ==
    IF rings = <<>> THEN <<>> ELSE Pairs(Closed(Head(rings))) \o RingPairs(Tail(rings))

\* C17: _linestring_to_segments on n points gives p0,p1, p1,p2, ...,
\* p(n-2),p(n-1): 2(n-1) points, none when n < 2;
\* _linearring_to_segments gives the same for the list with its first
\* point appended when the last point differs from it, so that the last
\* point it gives is p0; the points add stores for a polygon with a stroke
\* color are those of its (simplified) shell as a ring, followed by those
\* of each of its interiors.
C17_SegmentsArePairs ==
    [][ /\ (result'.op = "_linestring_to_segments") =>
               /\ segments' = Pairs(given)
               /\ Len(segments') = IF Len(given) < 2 THEN 0 ELSE 2 * (Len(given) - 1)
        /\ (result'.op = "_linearring_to_segments" /\ result'.exc = None) =>
               /\ segments' = Pairs(Closed(given))
               /\ segments' # <<>> =>
                      (segments'[1] = given[1] /\ segments'[Len(segments')] = given[1])
        /\ (result'.op = "add" /\ result'.exc = None) =>
               LET rec == data'[last_key']
                   simple == simplify(rec.geometry)
               IN  /\ rec.geometry.type = "Polygon"
                   /\ rec.line_pts = RingPairs(<<simple.coords>> \o simple.interiors)
                   /\ Len(rec.line_pts) % 2 = 0 ]_vars

\* C17 witness: _linearring_to_segments has closed a ring of three points
\* and given its three segments
C17_Witness ==
    /\ result.op = "_linearring_to_segments"
    /\ Len(given) = 4
    /\ Len(segments) = 6
    /\ segments[5] # given[1]
    /\ segments[6] = given[1]

\* the keys ks from the least to the greatest
RECURSIVE Ascending(_)
Ascending(ks) ==
    IF ks = {}
    THEN <<>>
    ELSE LET least == CHOOSE k \in ks : \A o \in ks : k <= o
         IN  <<least>> \o Ascending(ks \ {least})

\* C18: when _update has run, the visuals of every layer hold the buffers
\* of the visible shapes of that layer in the order of their ids, the
\* shape that was added first coming first.
C18_MergedInIdOrder ==
    calls # <<>> =>
        \A i \in 0..(layers - 1) :
            LET ks == Ascending({k \in DOMAIN data :
                                    data[k].visible /\ data[k].layer \in {i, i - layers}})
            IN  /\ meshes[i].vertices = Joined(ks, "mesh_vertices")
                /\ meshes[i].face_colors = Joined(ks, "mesh_colors")
                /\ LineShown(lines[i]).pos = Joined(ks, "line_pts")
                /\ LineShown(lines[i]).color = Joined(ks, "line_colors")

\* the ids the group holds
GroupIds == {indexes[j] : j \in 1..Len(indexes)}

\* C19: ShapeGroup.clear never raises; it leaves the group without ids and
\* the store without the ids the group held, and it leaves every other
\* shape of the store as it was, whatever was removed or cleared before.
C19_GroupClearAlwaysCompletes ==
    [][ (result'.op = "group.clear") =>
            /\ result'.exc = None
            /\ indexes' = <<>>
            /\ \A k \in GroupIds : k \notin DOMAIN data'
            /\ \A k \in (DOMAIN data) \ GroupIds : k \in DOMAIN data' /\ data'[k] = data[k] ]_vars

\* C20: ShapeGroup.visible = v never raises and runs _update once; after it
\* every shape of the group that is in the store has visible = v, every
\* other shape is as it was, no shape has come or gone or changed but in
\* its visibility, and the visuals hold the buffers of the shapes that
\* are visible now.
C20_VisibleAlwaysRedraws ==
    [][ (result'.op = "group.visible") =>
            /\ result'.exc = None
            /\ Len(calls') = 2 * layers
            /\ DOMAIN data' = DOMAIN data
            /\ \A k \in DOMAIN data :
                   /\ Cached(data'[k]) = Cached(data[k])
                   /\ k \in GroupIds => data'[k].visible = gvisible'
                   /\ k \notin GroupIds => data'[k] = data[k]
            /\ \A i \in 0..(layers - 1) :
                   LET ks == ContributorsOf(data', order', layers, i)
                   IN  /\ meshes'[i].vertices = JoinedOf(data', ks, "mesh_vertices")
                       /\ LineShown(lines'[i]).pos = JoinedOf(data', ks, "line_pts") ]_vars

====
